---- MODULE Spec2Model ----
(***************************************************************************)
(* A model of the chess rules engine of chess_game.py (ChessEngine), of    *)
(* the undo handler of its GUI (ChessGUI._undo_move) and of the calls a    *)
(* client makes to them.                                                   *)
(*                                                                         *)
(* A Position is the tuple <<row, col>>, None is the empty tuple, a        *)
(* ChessPiece is a record [piece_type, color].  The board dictionary is a  *)
(* total function on the 64 squares whose value NoPiece marks a key that   *)
(* the dictionary does not hold.                                           *)
(***************************************************************************)
EXTENDS Integers, Sequences, FiniteSets, TLC

VARIABLES
    board,              \* ChessEngine.board
    current_turn,       \* ChessEngine.current_turn
    move_history,       \* ChessEngine.move_history
    castling_rights,    \* ChessEngine.castling_rights
    en_passant_target,  \* ChessEngine.en_passant_target
    halfmove_clock,     \* ChessEngine.halfmove_clock
    fullmove_number,    \* ChessEngine.fullmove_number
    last,               \* the last call made to the engine and how it ended
    game,               \* the game the client replays
    pc,                 \* how many calls of that game have been made
    free,               \* how many calls were made after the game ended
    quiet,              \* how many plies in a row took nothing and moved no pawn
    gui                 \* ChessGUI: selected_square, legal_moves, the
                        \* computer_move callbacks scheduled and not yet
                        \* run, the game-over message boxes that are open,
                        \* the handler that has reached _check_game_status

engine == <<board, current_turn, move_history, castling_rights,
            en_passant_target, halfmove_clock, fullmove_number>>
vars == <<board, current_turn, move_history, castling_rights,
          en_passant_target, halfmove_clock, fullmove_number,
          last, game, pc, free, quiet, gui>>

(***************************************************************************)
(* Values                                                                  *)
(***************************************************************************)
None == << >>
NoPiece == [piece_type |-> "NONE", color |-> "NONE"]
ChessPiece(t, c) == [piece_type |-> t, color |-> c]
Position(r, c) == <<r, c>>
Squares == (0..7) \X (0..7)

Abs(n) == IF n < 0 THEN 0 - n ELSE n

\* an offset that tests the row alone
Position_add_by_rows(pos, other) ==
    LET new_row == pos[1] + other[1]
        new_col == pos[2] + other[2]
    IN  IF 0 <= new_row /\ new_row < 8
        THEN Position(new_row, new_col)
        ELSE None

\* Position.__add__
Position_add(pos, other) ==
    LET new_row == pos[1] + other[1]
        new_col == pos[2] + other[2]
    IN  IF 0 <= new_row /\ new_row < 8 /\ 0 <= new_col /\ new_col < 8
        THEN Position(new_row, new_col)
        ELSE None

\* board.get(pos): the piece of a key, NoPiece for a key the dictionary lacks
At(b, pos) == b[pos[1]][pos[2]]
\* pos in board
In(b, pos) == At(b, pos) # NoPiece
\* board[pos] = piece
Put(b, pos, piece) == [b EXCEPT ![pos[1]][pos[2]] = piece]
\* del board[pos]
Del(b, pos) == [b EXCEPT ![pos[1]][pos[2]] = NoPiece]

Opposite(color) == IF color = "WHITE" THEN "BLACK" ELSE "WHITE"

(***************************************************************************)
(* ChessEngine.VECTORS                                                     *)
(***************************************************************************)
KingVectors ==
    {<<i, j>> : i \in {-1, 0, 1}, j \in {-1, 0, 1}} \ {<<0, 0>>}
QueenVectors ==
    {v \in (-7..7) \X (-7..7) :
        \/ (v[1] = 0) # (v[2] = 0)
        \/ (Abs(v[1]) = Abs(v[2]) /\ v[1] # 0)}
RookVectors ==
    {<<i, 0>> : i \in (-7..7) \ {0}} \cup {<<0, j>> : j \in (-7..7) \ {0}}
BishopVectors ==
    {<<i, i>> : i \in (-7..7) \ {0}} \cup {<<i, 0 - i>> : i \in (-7..7) \ {0}}
\* the knight's vectors of two rows and one column
KnightVectors_upright == {<<2, 1>>, <<2, -1>>, <<-2, 1>>, <<-2, -1>>}

KnightVectors ==
    {<<2, 1>>, <<2, -1>>, <<-2, 1>>, <<-2, -1>>,
     <<1, 2>>, <<1, -2>>, <<-1, 2>>, <<-1, -2>>}

\* vector[k] // max(abs(vector[k]), 1) if vector[k] else 0
UnitStep(n) == IF n = 0 THEN 0 ELSE IF n > 0 THEN 1 ELSE -1
\* the steps the sliding loop takes for the vectors of a piece type
QueenSteps == {<<UnitStep(v[1]), UnitStep(v[2])>> : v \in QueenVectors}
RookSteps == {<<UnitStep(v[1]), UnitStep(v[2])>> : v \in RookVectors}
BishopSteps == {<<UnitStep(v[1]), UnitStep(v[2])>> : v \in BishopVectors}

SlidingSteps(piece_type) ==
    CASE piece_type = "QUEEN" -> QueenSteps
      [] piece_type = "ROOK" -> RookSteps
      [] piece_type = "BISHOP" -> BishopSteps

(***************************************************************************)
(* ChessEngine._create_initial_board and __init__                          *)
(***************************************************************************)
piece_order ==
    <<"ROOK", "KNIGHT", "BISHOP", "QUEEN", "KING", "BISHOP", "KNIGHT", "ROOK">>

\* a board with the back ranks laid out from the other side
_create_initial_board_mirrored ==
    [r \in 0..7 |-> [c \in 0..7 |->
        CASE r = 0 -> ChessPiece(piece_order[8 - c], "BLACK")
          [] r = 7 -> ChessPiece(piece_order[8 - c], "WHITE")
          [] r = 1 -> ChessPiece("PAWN", "BLACK")
          [] r = 6 -> ChessPiece("PAWN", "WHITE")
          [] OTHER -> NoPiece]]

_create_initial_board ==
    [r \in 0..7 |-> [c \in 0..7 |->
        CASE r = 0 -> ChessPiece(piece_order[c + 1], "BLACK")
          [] r = 7 -> ChessPiece(piece_order[c + 1], "WHITE")
          [] r = 1 -> ChessPiece("PAWN", "BLACK")
          [] r = 6 -> ChessPiece("PAWN", "WHITE")
          [] OTHER -> NoPiece]]

Sides == {"king", "queen"}
Colors == {"WHITE", "BLACK"}
InitialRights == [k \in Colors \X Sides |-> TRUE]

(***************************************************************************)
(* Move generation                                                         *)
(***************************************************************************)
\* the while loop of one vector of a sliding piece
RECURSIVE Slide(_, _, _, _)
\* a ray that ends after one step
Slide_one_step(b, current, step, color) ==
    LET next == Position_add(current, step)
    IN  IF next = None THEN {}
        ELSE IF In(b, next) /\ At(b, next).color = color THEN {}
        ELSE {next}

Slide(b, current, step, color) ==
    LET next == Position_add(current, step)
    IN  IF next = None THEN {}
        ELSE IF In(b, next)
             THEN (IF At(b, next).color # color THEN {next} ELSE {})
             ELSE {next} \cup Slide(b, next, step, color)

\* a pawn that never advances two squares
PawnMoves_single_step(b, pos, piece) ==
    LET direction == IF piece.color = "WHITE" THEN -1 ELSE 1
        front == Position_add(pos, <<direction, 0>>)
        captures == {Position_add(pos, <<direction, -1>>),
                     Position_add(pos, <<direction, 1>>)}
        forward == IF front # None /\ ~In(b, front) THEN {front} ELSE {}
        taking == {p \in captures :
                     p # None /\ In(b, p) /\ At(b, p).color # piece.color}
        ep == IF en_passant_target # None
              THEN {p \in captures : p = en_passant_target}
              ELSE {}
    IN  forward \cup taking \cup ep

\* _get_piece_moves, the pawn branch
PawnMoves(b, pos, piece) ==
    LET direction == IF piece.color = "WHITE" THEN -1 ELSE 1
        start_row == IF piece.color = "WHITE" THEN 6 ELSE 1
        front == Position_add(pos, <<direction, 0>>)
        double == Position_add(pos, <<2 * direction, 0>>)
        captures == {Position_add(pos, <<direction, -1>>),
                     Position_add(pos, <<direction, 1>>)}
        forward ==
            IF front # None /\ ~In(b, front)
            THEN {front} \cup
                 (IF pos[1] = start_row /\ double # None /\ ~In(b, double)
                  THEN {double} ELSE {})
            ELSE {}
        taking == {p \in captures :
                     p # None /\ In(b, p) /\ At(b, p).color # piece.color}
        ep == IF en_passant_target # None
              THEN {p \in captures : p = en_passant_target}
              ELSE {}
    IN  forward \cup taking \cup ep

\* _get_piece_moves with include_castling=False: what attack detection sees
RawMoves(b, pos, piece) ==
    CASE piece.piece_type = "PAWN" -> PawnMoves(b, pos, piece)
      [] piece.piece_type \in {"KING", "KNIGHT"} ->
            LET vectors == IF piece.piece_type = "KING"
                           THEN KingVectors ELSE KnightVectors
                potential_moves == {Position_add(pos, v) : v \in vectors}
            IN  {p \in potential_moves :
                    p # None /\ (~In(b, p) \/ At(b, p).color # piece.color)}
      [] OTHER ->
            UNION {Slide(b, pos, step, piece.color) :
                     step \in SlidingSteps(piece.piece_type)}

_is_position_attacked(b, pos, defending_color) ==
    LET attacking_color == Opposite(defending_color)
    IN  \E attacker_pos \in Squares :
            /\ At(b, attacker_pos).color = attacking_color
            /\ pos \in RawMoves(b, attacker_pos, At(b, attacker_pos))

\* the squares that hold the king of a color
KingSquares(b, color) == {p \in Squares : At(b, p) = ChessPiece("KING", color)}

\* a test that sees the attackers next to the king only
_is_in_check_from_beside(b, color) ==
    \E king_pos \in KingSquares(b, color) :
        \E attacker_pos \in Squares :
            /\ At(b, attacker_pos).color = Opposite(color)
            /\ Abs(attacker_pos[1] - king_pos[1]) <= 2
            /\ Abs(attacker_pos[2] - king_pos[2]) <= 2
            /\ king_pos \in RawMoves(b, attacker_pos, At(b, attacker_pos))

_is_in_check(b, color) ==
    LET kings == KingSquares(b, color)
    IN  IF kings = {} THEN FALSE
        ELSE \E king_pos \in kings : _is_position_attacked(b, king_pos, color)

_get_castling_moves(b, king_pos, king) ==
    LET row == IF king.color = "WHITE" THEN 7 ELSE 0
        king_side ==
            IF /\ castling_rights[<<king.color, "king">>]
               /\ \A col \in {5, 6} : ~In(b, Position(row, col))
               /\ ~\E col \in {4, 5, 6} :
                     _is_position_attacked(b, Position(row, col), king.color)
            THEN {Position(row, 6)} ELSE {}
        queen_side ==
            IF /\ castling_rights[<<king.color, "queen">>]
               /\ \A col \in {1, 2, 3} : ~In(b, Position(row, col))
               /\ ~\E col \in {2, 3, 4} :
                     _is_position_attacked(b, Position(row, col), king.color)
            THEN {Position(row, 2)} ELSE {}
    IN  king_side \cup queen_side

_get_piece_moves(b, pos, piece, include_castling) ==
    RawMoves(b, pos, piece) \cup
    (IF /\ piece.piece_type = "KING"
        /\ include_castling
        /\ ~_is_in_check(b, piece.color)
     THEN _get_castling_moves(b, pos, piece)
     ELSE {})

\* get_legal_moves, "Make move temporarily": the board while a candidate is
\* tried
Simulated(b, pos, move, piece) == Del(Put(b, move, piece), pos)

\* a restore that does not put the captured piece back
Restored_without_captured(b, pos, move, piece, captured) ==
    Del(Put(b, pos, piece), move)

\* a restore that leaves the piece on the square it tried
Restored_leaving_the_piece(b, pos, move, piece, captured) ==
    IF captured # NoPiece
    THEN Put(Put(b, pos, piece), move, captured)
    ELSE Put(b, pos, piece)

\* get_legal_moves, "Restore position": the board after a candidate was tried
Restored(b, pos, move, piece, captured) ==
    IF captured # NoPiece
    THEN Put(Put(b, pos, piece), move, captured)
    ELSE Del(Put(b, pos, piece), move)

\* a loop that does not leave out the squares of the kings
RECURSIVE TryMoves_onto_kings(_, _, _, _, _)
TryMoves_onto_kings(b, pos, piece, moves, legal_moves) ==
    IF moves = {} THEN [moves |-> legal_moves, board |-> b]
    ELSE
    LET move == CHOOSE m \in moves : TRUE
        captured == At(b, move)
        tried == Simulated(b, pos, move, piece)
        after == Restored(tried, pos, move, piece, captured)
    IN  TryMoves_onto_kings(after, pos, piece, moves \ {move},
                            IF ~_is_in_check(tried, piece.color)
                            THEN legal_moves \cup {move} ELSE legal_moves)

\* the loop of get_legal_moves over the pseudo-legal moves still to try:
\* [moves, board], the legal moves found and the board the loop leaves
RECURSIVE TryMoves(_, _, _, _, _)
TryMoves(b, pos, piece, moves, legal_moves) ==
    IF moves = {} THEN [moves |-> legal_moves, board |-> b]
    ELSE
    LET move == CHOOSE m \in moves : TRUE
        captured == At(b, move)
        tried == Simulated(b, pos, move, piece)
        after == Restored(tried, pos, move, piece, captured)
    IN  IF captured.piece_type = "KING"
        THEN TryMoves(b, pos, piece, moves \ {move}, legal_moves)
        ELSE TryMoves(after, pos, piece, moves \ {move},
                      IF ~_is_in_check(tried, piece.color)
                      THEN legal_moves \cup {move} ELSE legal_moves)

\* a get_legal_moves that does not ask whose turn it is
get_legal_moves_on_any_turn(b, pos) ==
    IF ~In(b, pos) THEN [moves |-> {}, board |-> b]
    ELSE TryMoves(b, pos, At(b, pos),
                  _get_piece_moves(b, pos, At(b, pos), TRUE), {})

\* a call of get_legal_moves while the board is b: [moves, board], the set
\* it returns and the board it leaves
get_legal_moves_on(b, pos) ==
    IF ~In(b, pos) THEN [moves |-> {}, board |-> b]
    ELSE LET piece == At(b, pos)
         IN  IF piece.color # current_turn
             THEN [moves |-> {}, board |-> b]
             ELSE TryMoves(b, pos, piece,
                           _get_piece_moves(b, pos, piece, TRUE), {})

\* a call of get_legal_moves in the current state
get_legal_moves_call(pos) == get_legal_moves_on(board, pos)

\* what get_legal_moves returns
get_legal_moves(pos) == get_legal_moves_call(pos).moves

(***************************************************************************)
(* ChessEngine.make_move and what it calls.  A call ends by returning True *)
(* or False, or by raising KeyError (a lookup or a deletion of a key the   *)
(* board does not hold); ret is "True", "False" or "KeyError".             *)
(***************************************************************************)
\* _handle_special_moves: [raised, board]; the board is the one at the raise
_handle_special_moves(b, from_pos, to_pos, piece) ==
    LET castling == piece.piece_type = "KING"
                    /\ Abs(from_pos[2] - to_pos[2]) = 2
        row == from_pos[1]
        rook_from == IF to_pos[2] = 6 THEN Position(row, 7) ELSE Position(row, 0)
        rook_to == IF to_pos[2] = 6 THEN Position(row, 5) ELSE Position(row, 3)
        castling_raises == castling /\ ~In(b, rook_from)
        b1 == IF castling
              THEN Del(Put(b, rook_to, At(b, rook_from)), rook_from)
              ELSE b
        en_passant == piece.piece_type = "PAWN" /\ to_pos = en_passant_target
        capture_row == IF piece.color = "WHITE" THEN 3 ELSE 4
        taken == Position(capture_row, to_pos[2])
        en_passant_raises == en_passant /\ ~In(b1, taken)
        b2 == IF en_passant THEN Del(b1, taken) ELSE b1
        promotion == piece.piece_type = "PAWN" /\ to_pos[1] \in {0, 7}
        b3 == IF promotion
              THEN Put(b2, to_pos, ChessPiece("QUEEN", piece.color))
              ELSE b2
    IN  IF castling_raises THEN [raised |-> TRUE, board |-> b]
        ELSE IF en_passant_raises THEN [raised |-> TRUE, board |-> b1]
        ELSE [raised |-> FALSE, board |-> b3]

\* an update that takes a right away for a rook's move only
_update_castling_rights_for_rooks(rights, from_pos, to_pos, piece) ==
    IF piece.piece_type = "ROOK"
    THEN IF from_pos[2] = 0
         THEN [rights EXCEPT ![<<piece.color, "queen">>] = FALSE]
         ELSE IF from_pos[2] = 7
         THEN [rights EXCEPT ![<<piece.color, "king">>] = FALSE]
         ELSE rights
    ELSE rights

_update_castling_rights(rights, from_pos, to_pos, piece) ==
    IF piece.piece_type = "KING"
    THEN [rights EXCEPT ![<<piece.color, "king">>] = FALSE,
                        ![<<piece.color, "queen">>] = FALSE]
    ELSE IF piece.piece_type = "ROOK"
    THEN IF from_pos[2] = 0
         THEN [rights EXCEPT ![<<piece.color, "queen">>] = FALSE]
         ELSE IF from_pos[2] = 7
         THEN [rights EXCEPT ![<<piece.color, "king">>] = FALSE]
         ELSE rights
    ELSE rights

\* an update that sets the target and never clears it
_update_en_passant_kept(from_pos, to_pos, piece) ==
    IF piece.piece_type = "PAWN" /\ Abs(from_pos[1] - to_pos[1]) = 2
    THEN Position((from_pos[1] + to_pos[1]) \div 2, from_pos[2])
    ELSE en_passant_target

\* an update that sets the target for every move of a pawn
_update_en_passant_for_any_advance(from_pos, to_pos, piece) ==
    IF piece.piece_type = "PAWN"
    THEN Position((from_pos[1] + to_pos[1]) \div 2, from_pos[2])
    ELSE None

_update_en_passant(from_pos, to_pos, piece) ==
    IF piece.piece_type = "PAWN" /\ Abs(from_pos[1] - to_pos[1]) = 2
    THEN Position((from_pos[1] + to_pos[1]) \div 2, from_pos[2])
    ELSE None

\* the engine as it is now, with the way the call ended
Now(ret) ==
    [ret |-> ret, board |-> board, current_turn |-> current_turn,
     move_history |-> move_history, castling_rights |-> castling_rights,
     en_passant_target |-> en_passant_target,
     halfmove_clock |-> halfmove_clock, fullmove_number |-> fullmove_number]

\* a move that takes the piece off its origin and puts it nowhere
Moved_off_the_board(b, from_pos, to_pos, piece) == Del(b, from_pos)

\* the board once the piece stands on to_pos: board[to_pos] = piece; del board[from_pos]
Moved(b, from_pos, to_pos, piece) == Del(Put(b, to_pos, piece), from_pos)

\* a clock that a pawn's move does not reset
halfmove_clock_of_captures(captured, piece) ==
    IF captured # NoPiece THEN 0 ELSE halfmove_clock + 1

\* make_move, the halfmove clock after the move
halfmove_clock_after(captured, piece) ==
    IF captured # NoPiece \/ piece.piece_type = "PAWN"
    THEN 0 ELSE halfmove_clock + 1

\* a number of moves that counts the plies
fullmove_number_of_plies == fullmove_number + 1

\* make_move, the fullmove number after the move
fullmove_number_after ==
    IF current_turn = "BLACK" THEN fullmove_number + 1 ELSE fullmove_number

\* make_move once the move is known to be legal, on the board b that
\* get_legal_moves left
ExecuteMove(b, from_pos, to_pos) ==
    LET piece == At(b, from_pos)
        captured == At(b, to_pos)
        special == _handle_special_moves(b, from_pos, to_pos, piece)
    IN  IF special.raised THEN [Now("KeyError") EXCEPT !.board = special.board]
        ELSE
        [ret |-> "True",
         board |-> Moved(special.board, from_pos, to_pos, piece),
         move_history |-> Append(move_history, <<from_pos, to_pos, captured>>),
         castling_rights |->
             _update_castling_rights(castling_rights, from_pos, to_pos, piece),
         en_passant_target |-> _update_en_passant(from_pos, to_pos, piece),
         halfmove_clock |-> halfmove_clock_after(captured, piece),
         fullmove_number |-> fullmove_number_after,
         current_turn |-> Opposite(current_turn)]

\* make_move, where legal is the call of get_legal_moves(from_pos) that it
\* makes first
make_move_given(legal, from_pos, to_pos) ==
    IF to_pos \notin legal.moves
    THEN [Now("False") EXCEPT !.board = legal.board]
    ELSE ExecuteMove(legal.board, from_pos, to_pos)

\* make_move: the engine after the call, with ret
make_move(from_pos, to_pos) ==
    make_move_given(get_legal_moves_call(from_pos), from_pos, to_pos)

(***************************************************************************)
(* The queries.  Each is a call that returns a value, ret, and leaves a    *)
(* board: they call get_legal_moves, which moves pieces and puts them      *)
(* back.  The items of the board dictionary are taken one after another,   *)
(* in an order that is fixed.                                              *)
(***************************************************************************)
\* [pos for pos, piece in list(self.board.items()) if piece.color ==
\* self.current_turn]: the squares that hold a piece of the side to move
ItemsToMove(b) == {pos \in Squares : At(b, pos).color = current_turn}

\* any(self.get_legal_moves(pos) for pos, piece in items if piece.color ==
\* self.current_turn), for the items still to take, on the board b
RECURSIVE AnyLegalMoves(_, _)
\* any, once get_legal_moves has returned legal for the item pos
AnyLegalMovesWith(legal, pos, items) ==
    IF legal.moves # {}
    THEN [ret |-> TRUE, board |-> legal.board]
    ELSE AnyLegalMoves(legal.board, items \ {pos})
\* any, with pos the next item
AnyLegalMovesFrom(b, pos, items) ==
    AnyLegalMovesWith(get_legal_moves_on(b, pos), pos, items)
AnyLegalMoves(b, items) ==
    IF items = {} THEN [ret |-> FALSE, board |-> b]
    ELSE AnyLegalMovesFrom(b, CHOOSE pos \in items : TRUE, items)

is_checkmate_on(b) ==
    IF ~_is_in_check(b, current_turn) THEN [ret |-> FALSE, board |-> b]
    ELSE LET any == AnyLegalMoves(b, ItemsToMove(b))
         IN  [ret |-> ~any.ret, board |-> any.board]

\* a stalemate that does not ask whether the king is in check
is_stalemate_on_in_check(b) ==
    LET any == AnyLegalMoves(b, ItemsToMove(b))
    IN  [ret |-> ~any.ret, board |-> any.board]

is_stalemate_on(b) ==
    IF _is_in_check(b, current_turn) THEN [ret |-> FALSE, board |-> b]
    ELSE LET any == AnyLegalMoves(b, ItemsToMove(b))
         IN  [ret |-> ~any.ret, board |-> any.board]

\* the halfmove clock from which is_draw says the game is drawn
FiftyMoveRule == 100
\* the number of pieces up to which the material may be insufficient
InsufficientMaterial == 3

\* a draw that does not count the pieces
is_draw_on_without_material(b) ==
    IF halfmove_clock >= FiftyMoveRule THEN [ret |-> TRUE, board |-> b]
    ELSE is_stalemate_on(b)

\* a draw that does not read the clock
is_draw_on_without_clock(b) ==
    LET pieces == {p \in Squares : In(b, p)}
        piece_types == {At(b, p).piece_type : p \in pieces}
    IN  IF /\ Cardinality(pieces) <= InsufficientMaterial
           /\ piece_types \subseteq {"KING", "BISHOP", "KNIGHT"}
        THEN [ret |-> TRUE, board |-> b]
        ELSE is_stalemate_on(b)

is_draw_on(b) ==
    IF halfmove_clock >= FiftyMoveRule THEN [ret |-> TRUE, board |-> b]
    ELSE LET pieces == {p \in Squares : In(b, p)}
             piece_types == {At(b, p).piece_type : p \in pieces}
         IN  IF /\ Cardinality(pieces) <= InsufficientMaterial
                /\ piece_types \subseteq {"KING", "BISHOP", "KNIGHT"}
             THEN [ret |-> TRUE, board |-> b]
             ELSE is_stalemate_on(b)

is_checkmate == is_checkmate_on(board).ret
is_stalemate == is_stalemate_on(board).ret
is_draw == is_draw_on(board).ret

(***************************************************************************)
(* SimpleAI                                                                *)
(***************************************************************************)
\* a score that counts every capture alike
evaluate_move_alike(b, move) == IF In(b, move) THEN 1 ELSE 0

\* SimpleAI.evaluate_move: the value of the piece that stands on the square
evaluate_move(b, move) ==
    LET captured == At(b, move).piece_type
    IN  CASE captured = "NONE" -> 0
          [] captured = "PAWN" -> 1
          [] captured \in {"KNIGHT", "BISHOP"} -> 3
          [] captured = "ROOK" -> 5
          [] captured = "QUEEN" -> 9
          [] captured = "KING" -> 0

\* the list moves of choose_move, for the items still to take, on the
\* board b: [moves, board]
RECURSIVE LegalMovesOfAll(_, _, _)
\* the list once get_legal_moves has returned legal for the item pos
LegalMovesWith(legal, pos, items, moves) ==
    LegalMovesOfAll(legal.board, items \ {pos},
                    moves \cup {<<pos, move>> : move \in legal.moves})
\* the list, with pos the next item
LegalMovesFrom(b, pos, items, moves) ==
    LegalMovesWith(get_legal_moves_on(b, pos), pos, items, moves)
LegalMovesOfAll(b, items, moves) ==
    IF items = {} THEN [moves |-> moves, board |-> b]
    ELSE LegalMovesFrom(b, CHOOSE pos \in items : TRUE, items, moves)

\* SimpleAI.choose_move: [options, board], the moves random.choice picks
\* one of (none: it returns None) and the board the call leaves
choose_move_on(b) ==
    LET all == LegalMovesOfAll(b, ItemsToMove(b), {})
        value(m) == evaluate_move(all.board, m[2])
        values == {value(m) : m \in all.moves}
        best_value == CHOOSE v \in values : \A w \in values : w <= v
    IN  [options |-> {m \in all.moves : value(m) = best_value},
         board |-> all.board]

(***************************************************************************)
(* ChessGUI._undo_move, on the engine: it returns ("None"), or raises      *)
(* KeyError after it has popped the history.                               *)
(***************************************************************************)
\* an undo that gives a king moved back its castling rights again
_undo_move_restoring ==
    IF move_history = << >> THEN Now("None")
    ELSE
    LET entry == move_history[Len(move_history)]
        from_pos == entry[1]
        to_pos == entry[2]
        captured == entry[3]
        piece == At(board, to_pos)
        popped == SubSeq(move_history, 1, Len(move_history) - 1)
        back == Del(Put(board, from_pos, piece), to_pos)
    IN  IF ~In(board, to_pos)
        THEN [Now("KeyError") EXCEPT !.move_history = popped]
        ELSE [Now("None") EXCEPT
                !.move_history = popped,
                !.board = IF captured # NoPiece
                          THEN Put(back, to_pos, captured) ELSE back,
                !.castling_rights =
                    IF piece.piece_type = "KING"
                    THEN [castling_rights EXCEPT
                            ![<<piece.color, "king">>] = TRUE,
                            ![<<piece.color, "queen">>] = TRUE]
                    ELSE castling_rights,
                !.current_turn = Opposite(current_turn)]

\* an undo that leaves the turn with the side it finds to move
_undo_move_keeping_the_turn(e) ==
    IF e.move_history = << >> THEN [e EXCEPT !.ret = "None"]
    ELSE
    LET entry == e.move_history[Len(e.move_history)]
        popped == SubSeq(e.move_history, 1, Len(e.move_history) - 1)
        back == Del(Put(e.board, entry[1], At(e.board, entry[2])), entry[2])
    IN  IF ~In(e.board, entry[2])
        THEN [e EXCEPT !.ret = "KeyError", !.move_history = popped]
        ELSE [e EXCEPT
                !.ret = "None",
                !.move_history = popped,
                !.board = IF entry[3] # NoPiece
                          THEN Put(back, entry[2], entry[3]) ELSE back]

\* _undo_move on the engine e that a call has left
_undo_move_after(e) ==
    IF e.move_history = << >> THEN [e EXCEPT !.ret = "None"]
    ELSE
    LET entry == e.move_history[Len(e.move_history)]
        from_pos == entry[1]
        to_pos == entry[2]
        captured == entry[3]
        popped == SubSeq(e.move_history, 1, Len(e.move_history) - 1)
        back == Del(Put(e.board, from_pos, At(e.board, to_pos)), to_pos)
    IN  IF ~In(e.board, to_pos)
        THEN [e EXCEPT !.ret = "KeyError", !.move_history = popped]
        ELSE [e EXCEPT
                !.ret = "None",
                !.move_history = popped,
                !.board = IF captured # NoPiece
                          THEN Put(back, to_pos, captured) ELSE back,
                !.current_turn = Opposite(e.current_turn)]

\* _undo_move on the engine as it is now
_undo_move == _undo_move_after(Now("None"))

\* the engine takes the state a call left
Becomes(r) ==
    /\ board' = r.board
    /\ current_turn' = r.current_turn
    /\ move_history' = r.move_history
    /\ castling_rights' = r.castling_rights
    /\ en_passant_target' = r.en_passant_target
    /\ halfmove_clock' = r.halfmove_clock
    /\ fullmove_number' = r.fullmove_number

(***************************************************************************)
(* The games a client replays: each is a sequence of calls made to a new   *)
(* engine, a move from one square to another or an undo.                   *)
(***************************************************************************)
Move(from_row, from_col, to_row, to_col) ==
    [op |-> "make_move", from |-> Position(from_row, from_col),
     to |-> Position(to_row, to_col)]
UndoCall == [op |-> "undo", from |-> None, to |-> None]

Games == <<
    \* 1: castling is offered (test_castling)
    \*    e2e4 e7e5 g1f3 g8f6 f1e2 f8e7
    <<Move(6, 4, 4, 4), Move(1, 4, 3, 4), Move(7, 6, 5, 5),
      Move(0, 6, 2, 5), Move(7, 5, 6, 4), Move(0, 5, 1, 4)>>,
    \* 2: castling undone
    \*    e2e4 e7e5 g1f3 g8f6 f1e2 f8e7 e1g1 undo
    <<Move(6, 4, 4, 4), Move(1, 4, 3, 4), Move(7, 6, 5, 5),
      Move(0, 6, 2, 5), Move(7, 5, 6, 4), Move(0, 5, 1, 4),
      Move(7, 4, 7, 6), UndoCall>>,
    \* 3: en passant by a pawn that shields its king
    \*    a2a4 d7d5 a4a5 d5d4 a1a4 e8d7 h2h3 d7e6 b1a3 e6f5 a3b1 f5f4 e2e4
    <<Move(6, 0, 4, 0), Move(1, 3, 3, 3), Move(4, 0, 3, 0),
      Move(3, 3, 4, 3), Move(7, 0, 4, 0), Move(0, 4, 1, 3),
      Move(6, 7, 5, 7), Move(1, 3, 2, 4), Move(7, 1, 5, 0),
      Move(2, 4, 3, 5), Move(5, 0, 7, 1), Move(3, 5, 4, 5),
      Move(6, 4, 4, 4)>>,
    \* 4: a pawn one step from the last rank
    \*    h2h4 g7g5 h4g5 h7h6 g5h6 a7a6 h6h7 a6a5
    <<Move(6, 7, 4, 7), Move(1, 6, 3, 6), Move(4, 7, 3, 6),
      Move(1, 7, 2, 7), Move(3, 6, 2, 7), Move(1, 0, 2, 0),
      Move(2, 7, 1, 7), Move(2, 0, 3, 0)>>,
    \* 5: the king's rook taken on its corner
    \*    e2e3 g8f6 f1d3 f6g4 g1f3 g4f2 a2a3 f2h1
    <<Move(6, 4, 5, 4), Move(0, 6, 2, 5), Move(7, 5, 5, 3),
      Move(2, 5, 4, 6), Move(7, 6, 5, 5), Move(4, 6, 6, 5),
      Move(6, 0, 5, 0), Move(6, 5, 7, 7)>>,
    \* 6: the corner left empty
    \*    e2e3 g8f6 f1d3 f6g4 g1f3 g4f2 a2a3 f2h1 a3a4 h1f2
    <<Move(6, 4, 5, 4), Move(0, 6, 2, 5), Move(7, 5, 5, 3),
      Move(2, 5, 4, 6), Move(7, 6, 5, 5), Move(4, 6, 6, 5),
      Move(6, 0, 5, 0), Move(6, 5, 7, 7), Move(5, 0, 4, 0),
      Move(7, 7, 6, 5)>>,
    \* 7: a two-square advance undone
    \*    e2e4 undo
    <<Move(6, 4, 4, 4), UndoCall>>,
    \* 8: an en passant capture undone
    \*    e2e4 a7a6 e4e5 d7d5 e5d6 undo
    <<Move(6, 4, 4, 4), Move(1, 0, 2, 0), Move(4, 4, 3, 4),
      Move(1, 3, 3, 3), Move(3, 4, 2, 3), UndoCall>>,
    \* 9: a pawn beside the king's path
    \*    g2g3 d7d5 f1h3 d5d4 g1f3 d4d3 a2a3 d3e2
    <<Move(6, 6, 5, 6), Move(1, 3, 3, 3), Move(7, 5, 5, 7),
      Move(3, 3, 4, 3), Move(7, 6, 5, 5), Move(4, 3, 5, 3),
      Move(6, 0, 5, 0), Move(5, 3, 6, 4)>>,
    \* 10: a pawn beside the king's goal
    \*    e2e3 g7g5 f1d3 g5g4 g1e2 g4g3 a2a3 g3h2
    <<Move(6, 4, 5, 4), Move(1, 6, 3, 6), Move(7, 5, 5, 3),
      Move(3, 6, 4, 6), Move(7, 6, 6, 4), Move(4, 6, 5, 6),
      Move(6, 0, 5, 0), Move(5, 6, 6, 7)>>,
    \* 11: a rook on the a-file that is not the queen's rook
    \*    h2h4 a7a6 h1h3 a6a5 h3a3 b7b6
    <<Move(6, 7, 4, 7), Move(1, 0, 2, 0), Move(7, 7, 5, 7),
      Move(2, 0, 3, 0), Move(5, 7, 5, 0), Move(1, 1, 2, 1)>>,
    \* 12: castling asked for too early, then a king's move
    \*    e2e4 e7e5 e1g1 e1e2
    <<Move(6, 4, 4, 4), Move(1, 4, 3, 4), Move(7, 4, 7, 6),
      Move(7, 4, 6, 4)>>,
    \* 13: a capture of the king asked for
    \*    a2a4 d7d5 a4a5 d5d4 a1a4 e8d7 h2h3 d7e6 b1a3 e6f5 a3b1 f5f4 e2e4 d4e3 a4f4
    <<Move(6, 0, 4, 0), Move(1, 3, 3, 3), Move(4, 0, 3, 0),
      Move(3, 3, 4, 3), Move(7, 0, 4, 0), Move(0, 4, 1, 3),
      Move(6, 7, 5, 7), Move(1, 3, 2, 4), Move(7, 1, 5, 0),
      Move(2, 4, 3, 5), Move(5, 0, 7, 1), Move(3, 5, 4, 5),
      Move(6, 4, 4, 4), Move(4, 3, 5, 4), Move(4, 0, 4, 5)>>,
    \* 14: a knight that bears on the king's path
    \*    e2e3 g8f6 f1d3 f6g4 g1f3 g4f2 a2a3 f2h1 a3a4 h1g3
    <<Move(6, 4, 5, 4), Move(0, 6, 2, 5), Move(7, 5, 5, 3),
      Move(2, 5, 4, 6), Move(7, 6, 5, 5), Move(4, 6, 6, 5),
      Move(6, 0, 5, 0), Move(6, 5, 7, 7), Move(5, 0, 4, 0),
      Move(7, 7, 5, 6)>>,
    \* 15: fool's mate
    \*    f2f3 e7e5 g2g4 d8h4
    <<Move(6, 5, 5, 5), Move(1, 4, 3, 4), Move(6, 6, 4, 6),
      Move(0, 3, 4, 7)>>,
    \* 16: a stalemate in ten moves
    \*    e2e3 a7a5 d1h5 a8a6 h5a5 h7h5 h2h4 a6h6 a5c7 f7f6 c7d7 e8f7 d7b7 d8d3 b7b8 d3h7 b8c8 f7g6 c8e6
    <<Move(6, 4, 5, 4), Move(1, 0, 3, 0), Move(7, 3, 3, 7),
      Move(0, 0, 2, 0), Move(3, 7, 3, 0), Move(1, 7, 3, 7),
      Move(6, 7, 4, 7), Move(2, 0, 2, 7), Move(3, 0, 1, 2),
      Move(1, 5, 2, 5), Move(1, 2, 1, 3), Move(0, 4, 1, 5),
      Move(1, 3, 1, 1), Move(0, 3, 5, 3), Move(1, 1, 0, 1),
      Move(5, 3, 1, 7), Move(0, 1, 0, 2), Move(1, 5, 2, 6),
      Move(0, 2, 2, 4)>>,
    \* 17: a hundred plies of the knights, out and home
    \*    g1f3 g8f6 f3g1 f6g8 g1f3 g8f6 f3g1 f6g8 g1f3 g8f6 f3g1 f6g8 g1f3 g8f6 f3g1 f6g8 g1f3 g8f6 f3g1 f6g8 g1f3 g8f6 f3g1 f6g8 g1f3 g8f6 f3g1 f6g8 g1f3 g8f6 f3g1 f6g8 g1f3 g8f6 f3g1 f6g8 g1f3 g8f6 f3g1 f6g8 g1f3 g8f6 f3g1 f6g8 g1f3 g8f6 f3g1 f6g8 g1f3 g8f6 f3g1 f6g8 g1f3 g8f6 f3g1 f6g8 g1f3 g8f6 f3g1 f6g8 g1f3 g8f6 f3g1 f6g8 g1f3 g8f6 f3g1 f6g8 g1f3 g8f6 f3g1 f6g8 g1f3 g8f6 f3g1 f6g8 g1f3 g8f6 f3g1 f6g8 g1f3 g8f6 f3g1 f6g8 g1f3 g8f6 f3g1 f6g8 g1f3 g8f6 f3g1 f6g8 g1f3 g8f6 f3g1 f6g8 g1f3 g8f6 f3g1 f6g8
    <<Move(7, 6, 5, 5), Move(0, 6, 2, 5), Move(5, 5, 7, 6),
      Move(2, 5, 0, 6), Move(7, 6, 5, 5), Move(0, 6, 2, 5),
      Move(5, 5, 7, 6), Move(2, 5, 0, 6), Move(7, 6, 5, 5),
      Move(0, 6, 2, 5), Move(5, 5, 7, 6), Move(2, 5, 0, 6),
      Move(7, 6, 5, 5), Move(0, 6, 2, 5), Move(5, 5, 7, 6),
      Move(2, 5, 0, 6), Move(7, 6, 5, 5), Move(0, 6, 2, 5),
      Move(5, 5, 7, 6), Move(2, 5, 0, 6), Move(7, 6, 5, 5),
      Move(0, 6, 2, 5), Move(5, 5, 7, 6), Move(2, 5, 0, 6),
      Move(7, 6, 5, 5), Move(0, 6, 2, 5), Move(5, 5, 7, 6),
      Move(2, 5, 0, 6), Move(7, 6, 5, 5), Move(0, 6, 2, 5),
      Move(5, 5, 7, 6), Move(2, 5, 0, 6), Move(7, 6, 5, 5),
      Move(0, 6, 2, 5), Move(5, 5, 7, 6), Move(2, 5, 0, 6),
      Move(7, 6, 5, 5), Move(0, 6, 2, 5), Move(5, 5, 7, 6),
      Move(2, 5, 0, 6), Move(7, 6, 5, 5), Move(0, 6, 2, 5),
      Move(5, 5, 7, 6), Move(2, 5, 0, 6), Move(7, 6, 5, 5),
      Move(0, 6, 2, 5), Move(5, 5, 7, 6), Move(2, 5, 0, 6),
      Move(7, 6, 5, 5), Move(0, 6, 2, 5), Move(5, 5, 7, 6),
      Move(2, 5, 0, 6), Move(7, 6, 5, 5), Move(0, 6, 2, 5),
      Move(5, 5, 7, 6), Move(2, 5, 0, 6), Move(7, 6, 5, 5),
      Move(0, 6, 2, 5), Move(5, 5, 7, 6), Move(2, 5, 0, 6),
      Move(7, 6, 5, 5), Move(0, 6, 2, 5), Move(5, 5, 7, 6),
      Move(2, 5, 0, 6), Move(7, 6, 5, 5), Move(0, 6, 2, 5),
      Move(5, 5, 7, 6), Move(2, 5, 0, 6), Move(7, 6, 5, 5),
      Move(0, 6, 2, 5), Move(5, 5, 7, 6), Move(2, 5, 0, 6),
      Move(7, 6, 5, 5), Move(0, 6, 2, 5), Move(5, 5, 7, 6),
      Move(2, 5, 0, 6), Move(7, 6, 5, 5), Move(0, 6, 2, 5),
      Move(5, 5, 7, 6), Move(2, 5, 0, 6), Move(7, 6, 5, 5),
      Move(0, 6, 2, 5), Move(5, 5, 7, 6), Move(2, 5, 0, 6),
      Move(7, 6, 5, 5), Move(0, 6, 2, 5), Move(5, 5, 7, 6),
      Move(2, 5, 0, 6), Move(7, 6, 5, 5), Move(0, 6, 2, 5),
      Move(5, 5, 7, 6), Move(2, 5, 0, 6), Move(7, 6, 5, 5),
      Move(0, 6, 2, 5), Move(5, 5, 7, 6), Move(2, 5, 0, 6),
      Move(7, 6, 5, 5), Move(0, 6, 2, 5), Move(5, 5, 7, 6),
      Move(2, 5, 0, 6)>>,
    \* 18: a pawn pushed onto the en passant target an undo left
    \*    e2e4 e7e5 undo e7e6
    <<Move(6, 4, 4, 4), Move(1, 4, 3, 4), UndoCall, Move(1, 4, 2, 4)>>,
    \* 19: moves asked from an opponent's square and from an empty one
    \*    e7e5 e4e5 e2e4
    <<Move(1, 4, 3, 4), Move(4, 4, 3, 4), Move(6, 4, 4, 4)>>,
    \* 20: down to king and bishop against king
    \*    b1a3 a7a6 h2h3 e7e6 b2b4 f8b4 e2e3 b4a3 c1a3 h7h5 f1a6 b8a6 d1h5 h8h5 e1c1 h5h3 g1h3 g8e7 a3e7 d8e7 h3f4 c7c6 f4e6 d7e6 f2f3 e7d6 d2d4 d6d4 d1d4 b7b5 c2c4 b5c4 d4c4 c6c5 c4c5 a6c5 h1e1 a8a2 g2g3 c8a6 e3e4 c5e4 f3e4 a2g2 e1d1 g2g3 d1d7 e8d7 c1d2 g3e3 d2e3 d7c6 e3f4 g7g5 f4g5 f7f5 e4f5 e6f5 g5f5
    <<Move(7, 1, 5, 0), Move(1, 0, 2, 0), Move(6, 7, 5, 7),
      Move(1, 4, 2, 4), Move(6, 1, 4, 1), Move(0, 5, 4, 1),
      Move(6, 4, 5, 4), Move(4, 1, 5, 0), Move(7, 2, 5, 0),
      Move(1, 7, 3, 7), Move(7, 5, 2, 0), Move(0, 1, 2, 0),
      Move(7, 3, 3, 7), Move(0, 7, 3, 7), Move(7, 4, 7, 2),
      Move(3, 7, 5, 7), Move(7, 6, 5, 7), Move(0, 6, 1, 4),
      Move(5, 0, 1, 4), Move(0, 3, 1, 4), Move(5, 7, 4, 5),
      Move(1, 2, 2, 2), Move(4, 5, 2, 4), Move(1, 3, 2, 4),
      Move(6, 5, 5, 5), Move(1, 4, 2, 3), Move(6, 3, 4, 3),
      Move(2, 3, 4, 3), Move(7, 3, 4, 3), Move(1, 1, 3, 1),
      Move(6, 2, 4, 2), Move(3, 1, 4, 2), Move(4, 3, 4, 2),
      Move(2, 2, 3, 2), Move(4, 2, 3, 2), Move(2, 0, 3, 2),
      Move(7, 7, 7, 4), Move(0, 0, 6, 0), Move(6, 6, 5, 6),
      Move(0, 2, 2, 0), Move(5, 4, 4, 4), Move(3, 2, 4, 4),
      Move(5, 5, 4, 4), Move(6, 0, 6, 6), Move(7, 4, 7, 3),
      Move(6, 6, 5, 6), Move(7, 3, 1, 3), Move(0, 4, 1, 3),
      Move(7, 2, 6, 3), Move(5, 6, 5, 4), Move(6, 3, 5, 4),
      Move(1, 3, 2, 2), Move(5, 4, 4, 5), Move(1, 6, 3, 6),
      Move(4, 5, 3, 6), Move(1, 5, 3, 5), Move(4, 4, 3, 5),
      Move(2, 4, 3, 5), Move(3, 6, 3, 5)>>,
    \* 21: a check that a pawn's single step blocks and its double step does not
    \*    e2e4 f7f5 d1h5
    <<Move(6, 4, 4, 4), Move(1, 5, 3, 5), Move(7, 3, 3, 7)>>,
    \* 22: a check by a pawn that can be taken en passant
    \*    e2e4 a7a6 e4e5 a6a5 e1e2 a5a4 e2e3 h7h6 e3e4 d7d5
    <<Move(6, 4, 4, 4), Move(1, 0, 2, 0), Move(4, 4, 3, 4),
      Move(2, 0, 3, 0), Move(7, 4, 6, 4), Move(3, 0, 4, 0),
      Move(6, 4, 5, 4), Move(1, 7, 2, 7), Move(5, 4, 4, 4),
      Move(1, 3, 3, 3)>>,
    \* 23: a rook that checks the king along an open file
    \*    h2h4 e7e5 h1h3 d7d5 h3e3 a7a6 e3e5
    <<Move(6, 7, 4, 7), Move(1, 4, 3, 4), Move(7, 7, 5, 7),
      Move(1, 3, 3, 3), Move(5, 7, 5, 4), Move(1, 0, 2, 0),
      Move(5, 4, 3, 4)>>,
    \* 24: a knight about to take the rook on the far corner
    \*    g1f3 g8f6 f3h4 e7e6 h4g6 f8e7
    <<Move(7, 6, 5, 5), Move(0, 6, 2, 5), Move(5, 5, 4, 7),
      Move(1, 4, 2, 4), Move(4, 7, 2, 6), Move(0, 5, 1, 4)>>,
    \* 25: two moves before the fool's mate
    \*    f2f3 e7e5
    <<Move(6, 5, 5, 5), Move(1, 4, 3, 4)>>
>>

(***************************************************************************)
(* The calls.  A client replays one of the Games from a new engine, then   *)
(* makes up to MaxFree further calls: any move the engine offers, or undo. *)
(***************************************************************************)
MaxFree == 1

\* ChessGUI.__init__: nothing selected, nothing scheduled, no message box
ChessGUI_new ==
    [selected_square |-> None, legal_moves |-> {}, timers |-> 0,
     dialogs |-> 0, status_check |-> "none"]

\* a new engine, and a client about to replay one of the games
InitWith(games) ==
    /\ board = _create_initial_board
    /\ current_turn = "WHITE"
    /\ move_history = << >>
    /\ castling_rights = InitialRights
    /\ en_passant_target = None
    /\ halfmove_clock = 0
    /\ fullmove_number = 1
    /\ last = [op |-> "new", from |-> None, to |-> None, ret |-> "None"]
    /\ game \in games
    /\ pc = 0
    /\ free = 0
    /\ quiet = 0
    /\ gui = ChessGUI_new

Init == InitWith(1..Len(Games))

\* the squares that hold a piece of a color
PiecesOf(b, color) == {p \in Squares : At(b, p).color = color}

\* the plies in a row, up to the call that ends as r, that took no piece
\* and moved no pawn: a call that is refused or raises is no ply
QuietPlies(from_pos, r) ==
    IF r.ret # "True" THEN quiet
    ELSE IF \/ At(board, from_pos).piece_type = "PAWN"
            \/ Cardinality(PiecesOf(r.board, r.current_turn))
                   < Cardinality(PiecesOf(board, r.current_turn))
         THEN 0 ELSE quiet + 1

MakeMove(from_pos, to_pos) ==
    LET r == make_move(from_pos, to_pos)
    IN  /\ Becomes(r)
        /\ last' = [op |-> "make_move", from |-> from_pos, to |-> to_pos,
                    ret |-> r.ret]
        /\ quiet' = QuietPlies(from_pos, r)

Undo ==
    LET r == _undo_move
    IN  /\ Becomes(r)
        /\ last' = [op |-> "undo", from |-> None, to |-> None, ret |-> r.ret]
        /\ quiet' = 0

Replay ==
    /\ pc < Len(Games[game])
    /\ pc' = pc + 1
    /\ UNCHANGED <<game, free, gui>>
    /\ LET call == Games[game][pc + 1]
       IN  \/ call.op = "make_move" /\ MakeMove(call.from, call.to)
           \/ call.op = "undo" /\ Undo

Explore ==
    /\ pc = Len(Games[game])
    /\ free < MaxFree
    /\ free' = free + 1
    /\ UNCHANGED <<game, pc, gui>>
    /\ \/ \E from_pos \in Squares :
            \E to_pos \in get_legal_moves(from_pos) :
                MakeMove(from_pos, to_pos)
       \/ Undo

Next == Replay \/ Explore

Spec == Init /\ [][Next]_vars

\* the games about castling
CastlingGames == {1, 2, 5, 6, 9, 10, 11, 12, 14}
InitCastling == InitWith(CastlingGames)
SpecCastling == InitCastling /\ [][Next]_vars

\* the games about en passant and about calls that are refused
EnPassantGames == {3, 7, 8, 13}
InitEnPassant == InitWith(EnPassantGames)
SpecEnPassant == InitEnPassant /\ [][Next]_vars

\* the games about undo and about the squares a query is asked for
UndoGames == {2, 7, 8, 18, 19}
InitUndo == InitWith(UndoGames)
SpecUndo == InitUndo /\ [][Next]_vars

\* the games about the clocks and about the ways a game ends
EndingGames == {7, 15, 16, 17, 20}
InitEndings == InitWith(EndingGames)
SpecEndings == InitEndings /\ [][Next]_vars

\* ChessEngine(): the engine that __init__ leaves
ChessEngine_new ==
    [ret |-> "None", board |-> _create_initial_board,
     current_turn |-> "WHITE", move_history |-> << >>,
     castling_rights |-> InitialRights, en_passant_target |-> None,
     halfmove_clock |-> 0, fullmove_number |-> 1]

\* ChessGUI._new_game: the client starts a new game, on a new engine
_new_game ==
    /\ pc = Len(Games[game])
    /\ free < MaxFree
    /\ free' = free + 1
    /\ UNCHANGED <<game, pc>>
    /\ gui' = [gui EXCEPT !.selected_square = None, !.legal_moves = {}]
    /\ Becomes(ChessEngine_new)
    /\ last' = [op |-> "new", from |-> None, to |-> None, ret |-> "None"]
    /\ quiet' = 0

\* the offsets tried reach from -MaxOffset to MaxOffset in rows and columns
MaxOffset == 8

\* the squares and the offsets that Position.__add__ is tried on
InitPosition ==
    /\ board = _create_initial_board
    /\ current_turn = "WHITE"
    /\ move_history = << >>
    /\ castling_rights = InitialRights
    /\ en_passant_target = None
    /\ halfmove_clock = 0
    /\ fullmove_number = 1
    /\ \E pos \in Squares : \E other \in (-MaxOffset..MaxOffset) \X
                                         (-MaxOffset..MaxOffset) :
          last = [op |-> "input", from |-> pos, to |-> other, ret |-> "None"]
    /\ game = 1
    /\ pc = 0
    /\ free = 0
    /\ quiet = 0
    /\ gui = ChessGUI_new

\* Position + (dr, dc): self + other
Position___add__ ==
    /\ last.op = "input"
    /\ last' = [last EXCEPT !.op = "__add__",
                            !.ret = Position_add(last.from, last.to)]
    /\ UNCHANGED <<engine, game, pc, free, quiet, gui>>

NextPosition == Position___add__
SpecPosition == InitPosition /\ [][NextPosition]_vars

\* the games about the moves of the pieces, with new games started
MoveGames == {1, 7, 19, 21, 22, 23}
InitMoves == InitWith(MoveGames)
NextMoves == Replay \/ Explore \/ _new_game
SpecMoves == InitMoves /\ [][NextMoves]_vars

(***************************************************************************)
(* ChessGUI.  Each handler runs to its end before the next event is taken, *)
(* except where it opens the game-over message box: the box runs the event *)
(* loop, in which scheduled callbacks still run while the window takes no  *)
(* clicks, and the handler goes on (_new_game) when the box is closed.     *)
(* A handler that has made a move goes on with _check_game_status as its   *)
(* next step, before any other event.                                      *)
(***************************************************************************)
\* the clicks made once the game has been replayed, among the first
\* MaxEvents events, and the button presses that may follow them
MaxEvents == 2
MaxPresses == 1

\* _check_game_status would open the game-over message box
GameOver == is_checkmate \/ is_draw

\* self.selected_square = None; self.legal_moves = set()
Deselected(g) == [g EXCEPT !.selected_square = None, !.legal_moves = {}]

\* the user may click or press a button, one of at most max events
UserEvent(max) ==
    /\ pc = Len(Games[game])
    /\ gui.status_check = "none"
    /\ gui.dialogs = 0
    /\ free < max
    /\ free' = free + 1
    /\ UNCHANGED <<game, pc>>

\* _on_square_click on a square of the board
_on_square_click ==
    /\ UserEvent(MaxEvents)
    /\ \E clicked_pos \in Squares :
          IF gui.selected_square = None
          THEN /\ IF At(board, clicked_pos).color = current_turn
                  THEN LET legal == get_legal_moves_call(clicked_pos)
                       IN  /\ gui' = [gui EXCEPT
                                        !.selected_square = clicked_pos,
                                        !.legal_moves = legal.moves]
                           /\ board' = legal.board
                  ELSE UNCHANGED <<gui, board>>
               /\ UNCHANGED <<current_turn, move_history, castling_rights,
                              en_passant_target, halfmove_clock,
                              fullmove_number, quiet>>
               /\ last' = [op |-> "click", from |-> None, to |-> clicked_pos,
                           ret |-> "None"]
          ELSE IF clicked_pos \in gui.legal_moves
          THEN LET from_pos == gui.selected_square
                   r == make_move(from_pos, clicked_pos)
               IN  /\ Becomes(r)
                   /\ quiet' = QuietPlies(from_pos, r)
                   /\ last' = [op |-> "click", from |-> from_pos,
                               to |-> clicked_pos, ret |-> r.ret]
                   /\ gui' = CASE r.ret = "KeyError" -> gui
                               [] r.ret = "False" -> Deselected(gui)
                               [] OTHER ->
                                    [gui EXCEPT !.timers = gui.timers + 1,
                                                !.status_check = "click"]
          ELSE /\ gui' = Deselected(gui)
               /\ UNCHANGED <<engine, quiet>>
               /\ last' = [op |-> "click", from |-> gui.selected_square,
                           to |-> clicked_pos, ret |-> "None"]

\* computer_move, run by the event loop 400 ms after it was scheduled
computer_move ==
    /\ gui.timers > 0
    /\ gui.status_check = "none"
    /\ UNCHANGED <<game, pc, free>>
    /\ IF current_turn = "BLACK"
       THEN LET chosen == choose_move_on(board)
            IN  IF chosen.options = {}
                THEN /\ board' = chosen.board
                     /\ UNCHANGED <<current_turn, move_history,
                                    castling_rights, en_passant_target,
                                    halfmove_clock, fullmove_number, quiet>>
                     /\ gui' = [gui EXCEPT !.timers = gui.timers - 1]
                     /\ last' = [op |-> "computer_move", from |-> None,
                                 to |-> None, ret |-> "None"]
                ELSE \E move \in chosen.options :
                        LET r == make_move(move[1], move[2])
                        IN  /\ Becomes(r)
                            /\ quiet' = QuietPlies(move[1], r)
                            /\ last' = [op |-> "computer_move",
                                        from |-> move[1], to |-> move[2],
                                        ret |-> r.ret]
                            /\ gui' = [gui EXCEPT
                                         !.timers = gui.timers - 1,
                                         !.status_check =
                                            IF r.ret = "True"
                                            THEN "computer_move"
                                            ELSE "none"]
       ELSE /\ UNCHANGED <<engine, quiet>>
            /\ gui' = [gui EXCEPT !.timers = gui.timers - 1]
            /\ last' = [op |-> "computer_move", from |-> None, to |-> None,
                        ret |-> "None"]

\* _check_game_status, called by the handler that has just made a move:
\* it opens the game-over message box, or returns, and _on_square_click
\* then clears the selection
_check_game_status ==
    /\ gui.status_check # "none"
    /\ UNCHANGED <<engine, last, game, pc, free, quiet>>
    /\ gui' = IF GameOver
              THEN [gui EXCEPT !.status_check = "none",
                               !.dialogs = gui.dialogs + 1]
              ELSE IF gui.status_check = "click"
              THEN [Deselected(gui) EXCEPT !.status_check = "none"]
              ELSE [gui EXCEPT !.status_check = "none"]

\* the Undo button: _undo_move, which leaves the selection as it is
UndoButton ==
    /\ UserEvent(MaxEvents + MaxPresses)
    /\ Undo
    /\ UNCHANGED gui

\* the New Game button: _new_game
NewGameButton ==
    /\ UserEvent(MaxEvents + MaxPresses)
    /\ Becomes(ChessEngine_new)
    /\ gui' = Deselected(gui)
    /\ last' = [op |-> "new", from |-> None, to |-> None, ret |-> "None"]
    /\ quiet' = 0

\* the game-over message box is closed: _check_game_status goes on with
\* _new_game, and the handler that called it ends
GameOverClosed ==
    /\ gui.dialogs > 0
    /\ gui.status_check = "none"
    /\ UNCHANGED <<game, pc, free>>
    /\ Becomes(ChessEngine_new)
    /\ gui' = [Deselected(gui) EXCEPT !.dialogs = gui.dialogs - 1]
    /\ last' = [op |-> "new", from |-> None, to |-> None, ret |-> "None"]
    /\ quiet' = 0

\* the games played on the window
GUIGames == {21, 24, 25}
InitGUI == InitWith(GUIGames)
NextGUI ==
    \/ Replay
    \/ _on_square_click
    \/ computer_move
    \/ _check_game_status
    \/ UndoButton
    \/ NewGameButton
    \/ GameOverClosed
SpecGUI == InitGUI /\ [][NextGUI]_vars

(***************************************************************************)
(* Properties                                                              *)
(***************************************************************************)
\* the last call was a make_move that returned True
Succeeded == last.op = "make_move" /\ last.ret = "True"
\* this step is a make_move that returns True
Succeeds == last'.op = "make_move" /\ last'.ret = "True"
\* every call so far was a make_move that returned True
OnlyMoves == Len(move_history) = pc + free
HomeRow(color) == IF color = "WHITE" THEN 7 ELSE 0
LastRow(color) == IF color = "WHITE" THEN 0 ELSE 7

\* C1: after a successful make_move, in a game of successful make_move calls
\* only, the side that has just moved is not in check.
C1_MoverNotInCheck ==
    (OnlyMoves /\ Succeeded) => ~_is_in_check(board, Opposite(current_turn))

\* C2: for every pair of squares (from, to) with to not in
\* get_legal_moves(from), make_move(from, to) returns False and leaves the
\* board, turn, history, castling rights, en-passant target and both clocks
\* as they were.
C2_RejectedChangesNothing ==
    \A from_pos \in Squares :
        LET legal == get_legal_moves_call(from_pos)
        IN  \A to_pos \in Squares \ legal.moves :
                make_move_given(legal, from_pos, to_pos) = Now("False")

\* C2, its case: a call for a move that is not legal has just returned False
C2_Rejected ==
    /\ last.op = "make_move"
    /\ last.ret = "False"
    /\ last.to \notin get_legal_moves(last.from)

\* C3: a successful make_move that moves a pawn onto the last rank leaves a
\* queen of the mover's color on the destination.
C3_PromotesToQueen ==
    [][(/\ Succeeds
        /\ At(board, last'.from).piece_type = "PAWN"
        /\ last'.to[1] = LastRow(current_turn))
       => At(board', last'.to) = ChessPiece("QUEEN", current_turn)]_vars

\* C4: in every state that successful make_move calls and undos reach, and
\* for every pair of squares, make_move returns True or False: it raises
\* nothing.
C4_MakeMoveCompletes ==
    \A from_pos \in Squares :
        LET legal == get_legal_moves_call(from_pos)
        IN  \A to_pos \in Squares :
                make_move_given(legal, from_pos, to_pos).ret
                    \in {"True", "False"}

\* the squares a pawn bears on: the two squares diagonally ahead of it
PawnBearsOn(pos, piece) ==
    LET direction == IF piece.color = "WHITE" THEN -1 ELSE 1
    IN  {Position_add(pos, <<direction, -1>>),
         Position_add(pos, <<direction, 1>>)} \ {None}

\* a square that holds no piece of the other color is attacked by that
\* color: one of its pieces could capture on the square
Attacked(b, pos, defending_color) ==
    \E attacker_pos \in Squares :
        LET attacker == At(b, attacker_pos)
        IN  /\ attacker.color = Opposite(defending_color)
            /\ IF attacker.piece_type = "PAWN"
               THEN pos \in PawnBearsOn(attacker_pos, attacker)
               ELSE pos \in RawMoves(b, attacker_pos, attacker)

\* the conditions C5 gives for castling to one side, for the king of a color
CastlingConditions(color, side) ==
    LET row == HomeRow(color)
        empty == IF side = "king" THEN {5, 6} ELSE {1, 2, 3}
        safe == IF side = "king" THEN {4, 5, 6} ELSE {2, 3, 4}
    IN  /\ ~_is_in_check(board, color)
        /\ castling_rights[<<color, side>>]
        /\ \A col \in empty : ~In(board, Position(row, col))
        /\ \A col \in safe : ~Attacked(board, Position(row, col), color)
CastlingGoal(color, side) ==
    Position(HomeRow(color), IF side = "king" THEN 6 ELSE 2)

\* C5: for the king of the side to move, the castling destination of a side
\* is among the legal moves of the king's square if and only if the king is
\* not in check, the right is held, the squares between king and rook are
\* empty and none of the three squares of the king's path is attacked by
\* the opponent.
C5_CastlingOfferedIff ==
    \A king_pos \in KingSquares(board, current_turn) : \A side \in Sides :
        CastlingGoal(current_turn, side) \in get_legal_moves(king_pos)
            <=> CastlingConditions(current_turn, side)

\* C6: a successful make_move of a king two columns along its home row
\* leaves the king on the destination, the rook of its color that stood on
\* the corner on the square the king crossed and the corner empty, appends
\* one history entry and flips the turn.
C6_CastlingMovesKingAndRook ==
    [][(/\ Succeeds
        /\ At(board, last'.from) = ChessPiece("KING", current_turn)
        /\ last'.from[1] = HomeRow(current_turn)
        /\ last'.to[1] = last'.from[1]
        /\ Abs(last'.to[2] - last'.from[2]) = 2)
       => LET row == last'.from[1]
              king_side == last'.to[2] > last'.from[2]
              corner == Position(row, IF king_side THEN 7 ELSE 0)
              crossed == Position(row, IF king_side THEN 5 ELSE 3)
          IN  /\ At(board', last'.to) = ChessPiece("KING", current_turn)
              /\ At(board, corner) = ChessPiece("ROOK", current_turn)
              /\ At(board', crossed) = ChessPiece("ROOK", current_turn)
              /\ ~In(board', corner)
              /\ Len(move_history') = Len(move_history) + 1
              /\ SubSeq(move_history', 1, Len(move_history)) = move_history
              /\ current_turn' = Opposite(current_turn)]_vars

\* C7: no set that get_legal_moves returns holds a square a king stands on,
\* and make_move returns False whenever the destination holds the king of
\* the side that is not to move.
C7_KingNeverTaken ==
    \A from_pos \in Squares :
        LET legal == get_legal_moves_call(from_pos)
        IN  /\ \A to_pos \in legal.moves :
                  At(board, to_pos).piece_type # "KING"
            /\ \A to_pos \in KingSquares(board, Opposite(current_turn)) :
                  make_move_given(legal, from_pos, to_pos).ret = "False"

\* C7, its case: a move onto the other side's king, within the movement
\* pattern of the piece, has just been asked for and refused
C7_KingInReach ==
    /\ last.op = "make_move"
    /\ last.ret = "False"
    /\ At(board, last.from).color = current_turn
    /\ At(board, last.to) = ChessPiece("KING", Opposite(current_turn))
    /\ last.to \in _get_piece_moves(board, last.from, At(board, last.from), TRUE)

\* C8: a castling right that is revoked is never held again, whatever call
\* is made: a make_move that is accepted or rejected, or an undo.
C8_RightsNeverRestored ==
    [][\A k \in Colors \X Sides :
          ~castling_rights[k] => ~castling_rights'[k]]_vars

\* C8, its case: a move of the king has been undone, the king is back on its
\* square and its rights are revoked
C8_KingMoveUndone ==
    /\ last.op = "undo"
    /\ last.ret = "None"
    /\ At(board, Position(7, 4)) = ChessPiece("KING", "WHITE")
    /\ ~castling_rights[<<"WHITE", "king">>]
    /\ ~castling_rights[<<"WHITE", "queen">>]

\* the corner a rook of a color starts on, for a side
Corner(color, side) == Position(HomeRow(color), IF side = "king" THEN 7 ELSE 0)

\* C9: after a successful make_move a right is revoked if and only if it was
\* revoked before, or the moved piece is that color's king, or it is that
\* color's rook leaving its original corner for that side.
C9_RightsRevokedIff ==
    [][Succeeds =>
        \A k \in Colors \X Sides :
            ~castling_rights'[k] <=>
                \/ ~castling_rights[k]
                \/ At(board, last'.from) = ChessPiece("KING", k[1])
                \/ /\ At(board, last'.from) = ChessPiece("ROOK", k[1])
                   /\ last'.from = Corner(k[1], k[2])]_vars

\* the last move was a pawn's advance of two rows
TwoRowAdvance ==
    /\ At(board, last.to).piece_type = "PAWN"
    /\ Abs(last.from[1] - last.to[1]) = 2
Midway == Position((last.from[1] + last.to[1]) \div 2, last.from[2])
\* the moves of a pawn of the side to move onto an empty square of another
\* column: the en passant captures
EnPassantCaptures ==
    UNION {{<<from_pos, to_pos>> : to_pos \in
                {t \in get_legal_moves(from_pos) :
                    t[2] # from_pos[2] /\ ~In(board, t)}} :
           from_pos \in {p \in Squares :
                           At(board, p) = ChessPiece("PAWN", current_turn)}}

\* C10: after every successful make_move en_passant_target is the square
\* midway between origin and destination if the move was a pawn's advance of
\* two rows and is None otherwise, and an en passant capture is legal then
\* only onto that square, passed by the pawn on the ply before.
C10_EnPassantOnlyNextPly ==
    Succeeded =>
        /\ en_passant_target = (IF TwoRowAdvance THEN Midway ELSE None)
        /\ \A m \in EnPassantCaptures :
              /\ TwoRowAdvance
              /\ m[2] = Midway
              /\ last.to = Position(m[1][1], m[2][2])

\* C10, its case: a pawn has just advanced two rows and can be taken en
\* passant
C10_EnPassantOffered ==
    /\ Succeeded
    /\ TwoRowAdvance
    /\ EnPassantCaptures # {}

\* C11: a successful make_move that moves a pawn onto the en passant target
\* removes the enemy pawn that stands in the column of the destination on
\* the row the capturing pawn started from, leaves the capturing pawn on the
\* target and changes no other square.
C11_EnPassantTakesThePawn ==
    [][(/\ Succeeds
        /\ At(board, last'.from).piece_type = "PAWN"
        /\ last'.to = en_passant_target)
       => LET taken == Position(last'.from[1], last'.to[2])
          IN  /\ At(board, taken) = ChessPiece("PAWN", Opposite(current_turn))
              /\ board' = Del(Moved(board, last'.from, last'.to,
                                    At(board, last'.from)), taken)]_vars

\* C12: after a successful make_move the halfmove clock is 0 if the move
\* removed an enemy piece or the moved piece is a pawn, and is one more than
\* before otherwise.
C12_HalfmoveClock ==
    [][Succeeds =>
        halfmove_clock' =
            IF \/ At(board, last'.from).piece_type = "PAWN"
               \/ Cardinality(PiecesOf(board', Opposite(current_turn)))
                      < Cardinality(PiecesOf(board, Opposite(current_turn)))
            THEN 0 ELSE halfmove_clock + 1]_vars

\* C12, its case: the clock has counted two plies since a move reset it
C12_ClockCounted ==
    /\ Succeeded
    /\ halfmove_clock >= 2
    /\ Len(move_history) > halfmove_clock

\* C13: every successful make_move flips the side to move, and the fullmove
\* number is one more than before when Black made the move and is unchanged
\* when White made it.
C13_TurnAndFullmove ==
    [][Succeeds =>
        /\ current_turn' = Opposite(current_turn)
        /\ fullmove_number' =
               IF current_turn = "BLACK"
               THEN fullmove_number + 1 ELSE fullmove_number]_vars

\* C13, its case: both sides have moved twice
C13_TwoMovesEach ==
    /\ Succeeded
    /\ current_turn = "WHITE"
    /\ fullmove_number = 3

\* the king of a color stands on a square the other color could capture on
InCheck(color) ==
    \E king_pos \in KingSquares(board, color) : Attacked(board, king_pos, color)
\* no piece of the side to move has a legal move
NoLegalMove ==
    \A pos \in PiecesOf(board, current_turn) : get_legal_moves(pos) = {}

\* C14: is_checkmate is true exactly when the side to move is in check and
\* none of its pieces has a legal move, is_stalemate exactly when it is not
\* in check and none of its pieces has a legal move; they are never true
\* together and both are false when some piece has a legal move.
C14_CheckmateAndStalemate ==
    LET none == NoLegalMove
        checkmate == is_checkmate
        stalemate == is_stalemate
    IN  /\ checkmate <=> (InCheck(current_turn) /\ none)
        /\ stalemate <=> (~InCheck(current_turn) /\ none)
        /\ ~(checkmate /\ stalemate)
        /\ ~none => (~checkmate /\ ~stalemate)

\* C14, its case: the side to move has been checkmated
C14_Checkmated ==
    /\ Succeeded
    /\ InCheck(current_turn)
    /\ NoLegalMove

\* C15: is_draw is true if and only if the halfmove clock is at least 100,
\* or the board holds three pieces or fewer, each a king, a bishop or a
\* knight, or is_stalemate is true.
C15_DrawIff ==
    is_draw <=>
        \/ halfmove_clock >= 100
        \/ /\ Cardinality(PiecesOf(board, "WHITE"))
                + Cardinality(PiecesOf(board, "BLACK")) <= 3
           /\ \A pos \in Squares :
                 At(board, pos).piece_type
                     \in {"NONE", "KING", "BISHOP", "KNIGHT"}
        \/ is_stalemate

\* C15, its case: a king and a bishop are left against a king
C15_MaterialGone ==
    /\ Succeeded
    /\ Cardinality(PiecesOf(board, "WHITE"))
           + Cardinality(PiecesOf(board, "BLACK")) = 3
    /\ is_draw

\* C16, as the claim states it: after fifty successful plies in a row that
\* took no piece and moved no pawn, is_draw is true.
C16_DrawAfterFiftyPlies == quiet >= 50 => is_draw

\* C16: after a hundred successful plies in a row, fifty by each side, that
\* took no piece and moved no pawn, is_draw is true.
C16_DrawAfterHundredPlies == quiet >= 100 => is_draw

\* C16, its case: a hundred such plies have been made
C16_HundredPlies == Succeeded /\ quiet = 100

\* C17: where is_checkmate, is_stalemate or is_draw is true, make_move
\* returns False for every pair of squares and changes nothing.
C17_Terminal ==
    (is_checkmate \/ is_stalemate \/ is_draw) =>
        \A from_pos \in Squares :
            LET legal == get_legal_moves_call(from_pos)
            IN  \A to_pos \in Squares :
                    make_move_given(legal, from_pos, to_pos) = Now("False")

\* C18: get_legal_moves returns the empty set for a square that is empty or
\* holds a piece of the side that is not to move.
C18_NothingForOthersSquares ==
    \A pos \in Squares :
        (~In(board, pos) \/ At(board, pos).color # current_turn)
            => get_legal_moves_call(pos) = [moves |-> {}, board |-> board]

\* C18, its case: a move has been asked for from a square of the side that
\* is not to move, and refused
C18_AskedForOpponent ==
    /\ last.op = "make_move"
    /\ last.ret = "False"
    /\ At(board, last.from).color = Opposite(current_turn)

\* C19: get_legal_moves, for every square, is_checkmate, is_stalemate,
\* is_draw and choose_move leave the board as it was before the call (they
\* assign nothing else of the engine).
C19_QueriesReadOnly ==
    /\ \A pos \in Squares : get_legal_moves_call(pos).board = board
    /\ is_checkmate_on(board).board = board
    /\ is_stalemate_on(board).board = board
    /\ is_draw_on(board).board = board
    /\ choose_move_on(board).board = board

\* C19, its case: the candidates of the side to move hold a capture and an
\* en passant capture
C19_CapturesTried ==
    /\ EnPassantCaptures # {}
    /\ \E pos \in Squares : \E move \in get_legal_moves(pos) : In(board, move)

\* C20: an undo with a history that is not empty removes its last entry
\* (from, to, captured), puts the piece on to back on from, leaves the
\* captured piece, or nothing, on to and flips the turn; it leaves castling
\* rights, en passant target and halfmove clock as they were.  An undo with
\* an empty history changes nothing.
C20_Undo ==
    [][last'.op = "undo" =>
        IF move_history = << >> THEN UNCHANGED engine
        ELSE LET entry == move_history[Len(move_history)]
             IN  /\ last'.ret = "None"
                 /\ move_history' =
                        SubSeq(move_history, 1, Len(move_history) - 1)
                 /\ In(board, entry[2])
                 /\ At(board', entry[1]) = At(board, entry[2])
                 /\ At(board', entry[2]) = entry[3]
                 /\ current_turn' = Opposite(current_turn)
                 /\ UNCHANGED <<castling_rights, en_passant_target,
                                halfmove_clock>>]_vars

\* the back rank: rook, knight, bishop, queen, king, bishop, knight, rook
BackRank ==
    <<"ROOK", "KNIGHT", "BISHOP", "QUEEN", "KING", "BISHOP", "KNIGHT", "ROOK">>

\* C21: a new engine, and the engine after a new game, holds 32 pieces in
\* the standard layout, with White to move, all four castling rights held,
\* no en passant target, halfmove clock 0, fullmove number 1 and an empty
\* history.
C21_StartingPosition ==
    last.op = "new" =>
        /\ Cardinality({pos \in Squares : In(board, pos)}) = 32
        /\ \A col \in 0..7 :
              /\ At(board, <<0, col>>) = ChessPiece(BackRank[col + 1], "BLACK")
              /\ At(board, <<1, col>>) = ChessPiece("PAWN", "BLACK")
              /\ \A row \in 2..5 : ~In(board, <<row, col>>)
              /\ At(board, <<6, col>>) = ChessPiece("PAWN", "WHITE")
              /\ At(board, <<7, col>>) = ChessPiece(BackRank[col + 1], "WHITE")
        /\ current_turn = "WHITE"
        /\ \A k \in Colors \X Sides : castling_rights[k]
        /\ en_passant_target = None
        /\ halfmove_clock = 0
        /\ fullmove_number = 1
        /\ move_history = << >>

\* C21, its case: a new game has been started after moves were made
C21_NewGameStarted == last.op = "new" /\ free > 0 /\ pc > 0

\* the king of a color is attacked on the board b
InCheckOn(b, color) ==
    \E king_pos \in KingSquares(b, color) : Attacked(b, king_pos, color)
\* the pawns of the side to move that stand on their home rank with the two
\* squares ahead of them empty
UnobstructedHomePawns ==
    {pos \in Squares :
        /\ At(board, pos) = ChessPiece("PAWN", current_turn)
        /\ pos[1] = (IF current_turn = "WHITE" THEN 6 ELSE 1)
        /\ \A ahead \in 1..2 :
              ~In(board, <<pos[1] + ahead * (IF current_turn = "WHITE"
                                             THEN -1 ELSE 1), pos[2]>>)}
\* the square a pawn of the side to move reaches by an advance of n rows
Advance(pos, n) ==
    <<pos[1] + n * (IF current_turn = "WHITE" THEN -1 ELSE 1), pos[2]>>

\* C22, as the claim states it: for every pawn of the side to move on its
\* home rank with both squares ahead empty, get_legal_moves holds the
\* advance of one square and the advance of two.
C22_BothAdvancesLegal ==
    \A pos \in UnobstructedHomePawns :
        {Advance(pos, 1), Advance(pos, 2)} \subseteq get_legal_moves(pos)

\* C22: for every such pawn both advances are pseudo-legal, and
\* get_legal_moves holds each of the two that does not leave the mover's
\* king in check, and no other of the two.
C22_SafeAdvancesLegal ==
    \A pos \in UnobstructedHomePawns : \A n \in 1..2 :
        /\ Advance(pos, n)
              \in _get_piece_moves(board, pos, At(board, pos), TRUE)
        /\ Advance(pos, n) \in get_legal_moves(pos)
              <=> ~InCheckOn(Moved(board, pos, Advance(pos, n),
                                   At(board, pos)), current_turn)

\* C22, its case: the side to move is in check, and of the two advances of
\* a pawn on its home rank one ends the check and is legal, the other not
C22_OneAdvanceEndsCheck ==
    /\ InCheck(current_turn)
    /\ \E pos \in UnobstructedHomePawns :
          /\ Advance(pos, 1) \in get_legal_moves(pos)
          /\ Advance(pos, 2) \notin get_legal_moves(pos)

\* C23: choose_move returns None if and only if no piece of the side to
\* move has a legal move; a pair it returns has on from a piece of the side
\* to move and to among get_legal_moves(from), and make_move of the pair
\* succeeds.
C23_ChosenMoveSucceeds ==
    LET options == choose_move_on(board).options
    IN  /\ options = {} <=> NoLegalMove
        /\ \A m \in options :
              /\ At(board, m[1]).color = current_turn
              /\ m[2] \in get_legal_moves(m[1])
              /\ make_move(m[1], m[2]).ret = "True"

\* the score of a move: the table value of the piece on its destination
Score(to_pos) ==
    LET kind == At(board, to_pos).piece_type
    IN  IF kind = "PAWN" THEN 1
        ELSE IF kind \in {"KNIGHT", "BISHOP"} THEN 3
        ELSE IF kind = "ROOK" THEN 5
        ELSE IF kind = "QUEEN" THEN 9
        ELSE 0
\* the legal moves of the side to move
LegalMoves ==
    UNION {{<<pos, to_pos>> : to_pos \in get_legal_moves(pos)} :
             pos \in PiecesOf(board, current_turn)}

\* C24: the moves choose_move can return are the legal moves of the side to
\* move whose score is the greatest among them.
C24_ChoosesBestScore ==
    LET moves == LegalMoves
    IN  choose_move_on(board).options =
            {m \in moves : \A other \in moves : Score(other[2]) <= Score(m[2])}

\* C24, its case: the legal moves hold captures of two different values and
\* a move that takes nothing
C24_CapturesOfTwoValues ==
    LET moves == LegalMoves
    IN  \E m \in moves : \E other \in moves : \E quiet_move \in moves :
           /\ Score(m[2]) > Score(other[2])
           /\ Score(other[2]) > 0
           /\ Score(quiet_move[2]) = 0

\* the kings of a color on the board
Kings(color) == {pos \in Squares : At(board, pos) = ChessPiece("KING", color)}

\* C25: after successful make_move calls only, the board holds one white
\* king and one black king, and every square a move left or reached has its
\* row and its column in 0..7.
C25_OneKingEach ==
    OnlyMoves =>
        /\ \A color \in Colors : Cardinality(Kings(color)) = 1
        /\ \A i \in 1..Len(move_history) :
              /\ move_history[i][1] \in (0..7) \X (0..7)
              /\ move_history[i][2] \in (0..7) \X (0..7)

\* C25, its case: after successful moves only, a king has just castled
C25_KingCastled ==
    /\ OnlyMoves
    /\ Succeeded
    /\ At(board, last.to).piece_type = "KING"
    /\ Abs(last.to[2] - last.from[2]) = 2

\* the squares from which this step removes a piece of the side not to move
RemovedFrom ==
    {pos \in Squares :
        /\ At(board, pos).color = Opposite(current_turn)
        /\ At(board', pos) # At(board, pos)}

\* C26: a successful make_move appends one entry (from, to, captured) to the
\* history, captured being the enemy piece the move removed from the board,
\* and none exactly when it removed none; a rejected make_move leaves the
\* history as it was.
C26_HistoryRecordsCaptures ==
    [][/\ Succeeds =>
            /\ Cardinality(RemovedFrom) <= 1
            /\ move_history' = Append(move_history,
                   <<last'.from, last'.to,
                     IF RemovedFrom = {} THEN NoPiece
                     ELSE At(board, CHOOSE pos \in RemovedFrom : TRUE)>>)
       /\ (last'.op = "make_move" /\ last'.ret = "False") =>
            move_history' = move_history]_vars

\* C27: a square offset by (dr, dc) is the square (row + dr, col + dc) when
\* both coordinates are in 0..7, and None otherwise.
C27_OffsetOnBoardOrNone ==
    last.op = "__add__" =>
        LET row == last.from[1] + last.to[1]
            col == last.from[2] + last.to[2]
        IN  /\ (row \in 0..7 /\ col \in 0..7) => last.ret = <<row, col>>
            /\ ~(row \in 0..7 /\ col \in 0..7) => last.ret = None
            /\ last.ret \in ((0..7) \X (0..7)) \cup {None}

\* C27, its case: the offset leaves the board by its column alone
C27_OffTheBoardSideways ==
    /\ last.op = "__add__"
    /\ last.from[1] + last.to[1] \in 0..7
    /\ last.from[2] + last.to[2] \notin 0..7
    /\ last.ret = None

\* C28: get_legal_moves of a piece of the side to move holds every
\* pseudo-legal destination without a king on it for which the board that
\* make_move would produce leaves the mover's king unattacked.
C28_SafeMovesAreLegal ==
    \A pos \in PiecesOf(board, current_turn) :
        \A to_pos \in _get_piece_moves(board, pos, At(board, pos), TRUE) :
            LET made == ExecuteMove(board, pos, to_pos)
            IN  (/\ At(board, to_pos).piece_type # "KING"
                 /\ made.ret = "True"
                 /\ ~InCheckOn(made.board, current_turn))
                    => to_pos \in get_legal_moves(pos)

\* the square k steps from pos in a direction
Along(pos, direction, k) == <<pos[1] + k * direction[1], pos[2] + k * direction[2]>>
\* the directions of the rays of a sliding piece
Directions(piece_type) ==
    {d \in {-1, 0, 1} \X {-1, 0, 1} :
        /\ d # <<0, 0>>
        /\ piece_type = "BISHOP" => (d[1] # 0 /\ d[2] # 0)
        /\ piece_type = "ROOK" => (d[1] = 0 \/ d[2] = 0)}
\* the squares of the rays of a piece up to the first occupied square, that
\* square included if it holds an enemy piece
RayMoves(pos, piece) ==
    {to_pos \in Squares :
        \E d \in Directions(piece.piece_type) : \E k \in 1..7 :
            /\ to_pos = Along(pos, d, k)
            /\ \A j \in 1..(k - 1) : ~In(board, Along(pos, d, j))
            /\ At(board, to_pos).color # piece.color}

\* C29: the pseudo-legal destinations of a bishop, rook or queen are, along
\* each of its directions, the empty squares up to the first occupied
\* square, and that square if it holds an enemy piece.
C29_SlidingMoves ==
    \A pos \in Squares :
        At(board, pos).piece_type \in {"BISHOP", "ROOK", "QUEEN"} =>
            _get_piece_moves(board, pos, At(board, pos), TRUE)
                = RayMoves(pos, At(board, pos))

\* C29, its case: a sliding piece with a ray that ends on an enemy piece
\* two or more squares away, and a ray that ends before a piece of its own
\* two or more squares away
C29_RaysEndOnPieces ==
    \E pos \in Squares :
        LET piece == At(board, pos)
        IN  /\ piece.piece_type \in {"BISHOP", "ROOK", "QUEEN"}
            /\ \E to_pos \in RayMoves(pos, piece) :
                  /\ In(board, to_pos)
                  /\ Abs(to_pos[1] - pos[1]) + Abs(to_pos[2] - pos[2]) >= 2
            /\ \E d \in Directions(piece.piece_type) : \E k \in 3..7 :
                  /\ Along(pos, d, k) \in Squares
                  /\ At(board, Along(pos, d, k)).color = piece.color
                  /\ \A j \in 1..(k - 1) : ~In(board, Along(pos, d, j))

\* the squares at the fixed offsets of a king or a knight
OffsetSquares(pos, piece_type) ==
    {to_pos \in Squares :
        LET rows == Abs(to_pos[1] - pos[1])
            cols == Abs(to_pos[2] - pos[2])
        IN  IF piece_type = "KING"
            THEN rows <= 1 /\ cols <= 1 /\ rows + cols > 0
            ELSE rows * cols = 2}

\* C30: the raw destinations of a king or a knight are the squares at its
\* offsets that are on the board and empty or held by an enemy piece; in
\* the starting position the knight on (7,1) has the legal moves (5,0) and
\* (5,2) and no other.
C30_KingAndKnightMoves ==
    /\ \A pos \in Squares :
          At(board, pos).piece_type \in {"KING", "KNIGHT"} =>
              RawMoves(board, pos, At(board, pos)) =
                  {to_pos \in OffsetSquares(pos, At(board, pos).piece_type) :
                      At(board, to_pos).color # At(board, pos).color}
    /\ last.op = "new" => get_legal_moves(<<7, 1>>) = {<<5, 0>>, <<5, 2>>}

\* C30, its case: a knight with a capture, with a square held by a piece of
\* its own and with eight squares on the board, and a king with a capture
C30_KnightAndKingCapture ==
    /\ \E pos \in Squares :
          /\ At(board, pos).piece_type = "KNIGHT"
          /\ Cardinality(OffsetSquares(pos, "KNIGHT")) = 8
          /\ \E to_pos \in RawMoves(board, pos, At(board, pos)) :
                In(board, to_pos)
          /\ \E to_pos \in OffsetSquares(pos, "KNIGHT") :
                At(board, to_pos).color = At(board, pos).color
    /\ \E pos \in Squares :
          /\ At(board, pos).piece_type = "KING"
          /\ \E to_pos \in RawMoves(board, pos, At(board, pos)) :
                In(board, to_pos)

\* the squares a piece bears on: those it could capture an enemy piece on
BearsOn(pos, piece) ==
    CASE piece.piece_type = "PAWN" -> PawnBearsOn(pos, piece)
      [] piece.piece_type \in {"KING", "KNIGHT"} ->
            OffsetSquares(pos, piece.piece_type)
      [] OTHER ->
            {to_pos \in Squares :
                \E d \in Directions(piece.piece_type) : \E k \in 1..7 :
                    /\ to_pos = Along(pos, d, k)
                    /\ \A j \in 1..(k - 1) : ~In(board, Along(pos, d, j))}
\* a rook of the other color stands on the file of the king of a color,
\* with every square between them empty
RookOnOpenFile(color) ==
    \E king_pos \in Kings(color) : \E rook_pos \in Squares :
        /\ At(board, rook_pos) = ChessPiece("ROOK", Opposite(color))
        /\ rook_pos[2] = king_pos[2]
        /\ \A row \in 0..7 :
              ((row > rook_pos[1] /\ row < king_pos[1])
                 \/ (row > king_pos[1] /\ row < rook_pos[1]))
                    => ~In(board, <<row, king_pos[2]>>)

\* C31: a color is in check if and only if its king is on the board and a
\* piece of the other color has the king's square among the squares it
\* could move to; it is not in check on a board without its king; a king on
\* a file with an enemy rook and nothing between them is in check.
C31_InCheckIffKingAttacked ==
    \A color \in Colors :
        /\ _is_in_check(board, color) <=>
              \E king_pos \in Kings(color) : \E attacker_pos \in Squares :
                  /\ At(board, attacker_pos).color = Opposite(color)
                  /\ king_pos \in BearsOn(attacker_pos, At(board, attacker_pos))
        /\ \A king_pos \in Kings(color) :
              ~_is_in_check(Del(board, king_pos), color)
        /\ RookOnOpenFile(color) => _is_in_check(board, color)

\* C31, its case: the king of the side to move shares a file with an enemy
\* rook two or more squares away, nothing stands between them, and no other
\* piece bears on the king
C31_RookChecksAlongFile ==
    /\ RookOnOpenFile(current_turn)
    /\ \E king_pos \in Kings(current_turn) :
          /\ \A rook_pos \in Squares :
                At(board, rook_pos) = ChessPiece("ROOK", Opposite(current_turn))
                    => Abs(rook_pos[1] - king_pos[1]) >= 2
          /\ Cardinality({attacker_pos \in Squares :
                /\ At(board, attacker_pos).color = Opposite(current_turn)
                /\ king_pos \in BearsOn(attacker_pos,
                                        At(board, attacker_pos))}) = 1

\* C32: after successful make_move calls only, when the king of the side to
\* move stands on column 4 of its home row and get_legal_moves of its square
\* holds the square two columns away (column 6 or column 2), the corner on
\* that side (column 7 or column 0) holds a rook of the king's color.
C32_CastlingOnlyWithOwnRook ==
    OnlyMoves =>
        LET row == HomeRow(current_turn)
            king_pos == <<row, 4>>
        IN  At(board, king_pos) = ChessPiece("KING", current_turn) =>
                \A side \in {<<6, 7>>, <<2, 0>>} :
                    <<row, side[1]>> \in get_legal_moves(king_pos) =>
                        At(board, <<row, side[2]>>)
                            = ChessPiece("ROOK", current_turn)

\* C33: after successful make_move calls only, an en_passant_target that is
\* set is an empty square on row 2 or row 5, the last entry of the history
\* is a pawn's advance of two rows from one side of it to the other in its
\* column, and the square one row beyond it holds a pawn of the side that
\* is not to move.
C33_EnPassantTargetBehindPawn ==
    (OnlyMoves /\ en_passant_target # None) =>
        LET target == en_passant_target
            beyond == <<IF target[1] = 2 THEN 3 ELSE 4, target[2]>>
            origin == <<IF target[1] = 2 THEN 1 ELSE 6, target[2]>>
        IN  /\ target[1] \in {2, 5}
            /\ target[2] \in 0..7
            /\ ~In(board, target)
            /\ move_history # << >>
            /\ move_history[Len(move_history)][1] = origin
            /\ move_history[Len(move_history)][2] = beyond
            /\ At(board, beyond) = ChessPiece("PAWN", Opposite(current_turn))

\* C33, its case: after successful moves only the target is set on row 2,
\* behind a black pawn that a white pawn can take en passant
C33_TargetBehindBlackPawn ==
    /\ OnlyMoves
    /\ en_passant_target # None
    /\ en_passant_target[1] = 2
    /\ current_turn = "WHITE"
    /\ EnPassantCaptures # {}

\* C34: for every legal move, make_move followed at once by undo leaves the
\* board, as a mapping from squares to pieces, and the side to move as they
\* were before the move.
C34_UndoRestoresBoardAndTurn ==
    \A from_pos \in Squares :
        LET legal == get_legal_moves_call(from_pos)
        IN  \A to_pos \in legal.moves :
                LET made == make_move_given(legal, from_pos, to_pos)
                    undone == _undo_move_after(made)
                IN  made.ret = "True" =>
                        /\ undone.ret = "None"
                        /\ undone.board = board
                        /\ undone.current_turn = current_turn

\* White is to move exactly when the history has an even number of entries
TurnMatchesHistory ==
    current_turn = "WHITE" <=> Len(move_history) % 2 = 0

\* C35: on a new engine, and after every make_move and undo that does not
\* raise made where it holds, White is to move if and only if the history
\* has an even number of entries.
C35_TurnFollowsHistory ==
    /\ TurnMatchesHistory
    /\ [][(TurnMatchesHistory /\ last'.ret # "KeyError")
             => TurnMatchesHistory']_vars

\* C35, its case: an undo has just taken back a move of Black, and moves
\* are left in the history
C35_BlackToMoveAfterUndo ==
    /\ last.op = "undo"
    /\ last.ret = "None"
    /\ current_turn = "BLACK"
    /\ Len(move_history) >= 1

\* fullmove_number is 1 plus the number of Black's moves in the history
FullmoveMatchesHistory ==
    fullmove_number = 1 + Len(move_history) \div 2

\* C36: on a new engine, and after every make_move and undo that does not
\* raise made where it holds, fullmove_number is 1 plus half the length of
\* the history, rounded down.
C36_FullmoveFollowsHistory ==
    /\ FullmoveMatchesHistory
    /\ [][(FullmoveMatchesHistory /\ last'.ret # "KeyError")
             => FullmoveMatchesHistory']_vars

\* C37: a color that holds a castling right has its king on column 4 of its
\* home row.
C37_RightsOnlyWithKingAtHome ==
    \A color \in Colors :
        (\E side \in Sides : castling_rights[<<color, side>>]) =>
            At(board, <<HomeRow(color), 4>>) = ChessPiece("KING", color)

\* C37, its case: a move of the white king has been undone: the king is
\* back on its square without its rights, and Black holds its rights
C37_KingBackWithoutRights ==
    /\ last.op = "undo"
    /\ At(board, <<7, 4>>) = ChessPiece("KING", "WHITE")
    /\ \A side \in Sides : ~castling_rights[<<"WHITE", side>>]
    /\ \E side \in Sides : castling_rights[<<"BLACK", side>>]

\* this step runs a scheduled computer_move
Fires == gui'.timers < gui.timers

\* C38: a computer_move that runs changes the engine only if Black is to
\* move when it runs, and then by one move that choose_move can return in
\* that state; it adds at most one entry to the history and puts no white
\* piece on a square where it did not stand.
C38_ComputerMovesBlackOnly ==
    [][Fires =>
        /\ (board' # board \/ move_history' # move_history) =>
              /\ current_turn = "BLACK"
              /\ <<last'.from, last'.to>> \in choose_move_on(board).options
              /\ move_history' = Append(move_history,
                     <<last'.from, last'.to, At(board, last'.to)>>)
        /\ Len(move_history') <= Len(move_history) + 1
        /\ \A pos \in Squares :
              At(board', pos).color = "WHITE" =>
                  At(board', pos) = At(board, pos)]_vars

====
